---- MODULE Spec2Model ----
(***************************************************************************)
(* Phoenix Arena: the Battle turn scheduler of src/arena.js (class Battle, *)
(* lines 220-501), together with the callers of its control operations.    *)
(*                                                                         *)
(* One Battle is modelled.  The JavaScript event loop runs one callback    *)
(* at a time, so every action below is one run-to-suspension slice of a    *)
(* handler: it ends where the code awaits real I/O (the Provider call in   *)
(* Agent.respond, the file write in Agent.saveBrain) or returns.           *)
(*                                                                         *)
(* Text is modelled by identity: the opening message is content 0 and the  *)
(* n-th successful Provider response is content n, so two Turns have the   *)
(* same content only if they are the same response.                        *)
(*                                                                         *)
(* The methods that build text (start()'s opening, buildMessages,          *)
(* buildSystemPrompt) are modelled on their own: a text is a sequence of   *)
(* tokens, the empty sequence being the empty string; null and undefined   *)
(* inputs are falsy like the empty string and are represented by it.       *)
(***************************************************************************)
EXTENDS Bags, FiniteSets, Integers, Sequences, TLC

\* ------------------------------------------------------------------ bounds
MaxAgents == 2        \* battles of 2..MaxAgents agents
MaxTurnsCfg == 2      \* config.maxTurns drawn from 1..MaxTurnsCfg
MaxPauses == 1        \* pause() requests issued by the environment
MaxSpectators == 2    \* WebSocket connections made to the server
MaxBattles == 2       \* createBattle() calls

MaxHistory == 3       \* Turns in a transcript handed to buildMessages
MaxWords == 1         \* config.maxWords drawn from 0..MaxWords
MaxEntries == 2       \* knowledge entries and memories in a Brain

\* --------------------------------------------------------------- constants
DefaultMaxTurns == 20
MinAgents == 2
Opening == 0
KnowledgeLimit == 30
MemoryLimit == 10

VARIABLES
    configMaxTurns,   \* config.maxTurns as passed to the constructor
    nAgents,          \* this.agents.length
    maxTurns,         \* this.maxTurns
    brainPath,        \* agent index -> whether agent.brainPath is set
    sinkUp,           \* the Persistence Sink takes writes (FALSE: this.db is
                      \* null or every write throws)
    status,           \* this.status
    turn,             \* this.turn
    currentSpeaker,   \* this.currentSpeaker
    history,          \* this.history (the transcript)
    timers,           \* pending setTimeout callbacks: bag of runTurn inputs
    inflight,         \* Provider calls awaiting their result: bag of calls
    completing,       \* complete() invocations awaiting saveBrain: bag of agent indexes
    memories,         \* agent index -> number of arena_battle memory entries
    saveCalls,        \* agent index -> number of saveBrain() calls
    dbStatus,         \* battles.status in the Persistence Sink ("none": no row)
    dbTurns,          \* turns.turn_number rows in the Persistence Sink
    events,           \* sequence of broadcast events
    started,          \* the creator has called start()
    pauses,           \* number of pause() requests so far
    responses,        \* number of successful Provider responses so far
    failures,         \* number of failed Provider calls so far
    op,               \* the operation whose handler slice ran last
    battles,          \* Arena.battles: Battle id -> Battle (its creation number)
    returned,         \* the Battles createBattle() has returned: their ids,
                      \* in creation order; Battle 1 is the one modelled in full
    now,              \* Date.now()
    spectators,       \* Arena.spectators
    wsState,          \* connection -> "none" (not connected yet), "open"
                      \* (readyState 1) or "closed" (readyState 2 or 3)
    received,         \* connection -> the messages sent on it
    fnArgs,           \* the receiver and arguments of a method called on its own
    fnOut,            \* that call's result
    cli               \* CLIBattle.run(): "idle" (not called), "called" (creating
                      \* and starting its Battle, then in its wait loop) or
                      \* "returned"

vars == <<configMaxTurns, nAgents, maxTurns, brainPath, sinkUp, status, turn,
          currentSpeaker, history, timers, inflight, completing, memories,
          saveCalls, dbStatus, dbTurns, events, started, pauses, responses,
          failures, op, battles, returned, now, spectators, wsState, received,
          fnArgs, fnOut, cli>>

\* the Arena apart from what its spectators have received
arenaVars == <<battles, returned, now, spectators, wsState>>

fnVars == <<fnArgs, fnOut>>

Agents == 0 .. (nAgents - 1)

Statuses == {"pending", "running", "paused", "complete"}

\* arena.js:227  this.maxTurns = config.maxTurns || 20
BattleMaxTurns(cfg) == IF cfg = 0 THEN DefaultMaxTurns ELSE cfg

\* one element added to / removed from a bag
BagAdd(b, e) == b (+) SetToBag({e})
BagRemove(b, e) == b (-) SetToBag({e})

\* ------------------------------------------------------------------- Arena
Sockets == 1 .. MaxSpectators

\* the function f with x mapped to v (Map.set)
MapSet(f, x, v) == [y \in DOMAIN f \cup {x} |-> IF y = x THEN v ELSE f[y]]

\* variant: the readiness check is left out
Broadcast_Unchecked(rcv, e) ==
    [ws \in Sockets |-> IF ws \in spectators THEN Append(rcv[ws], e) ELSE rcv[ws]]

\* Arena.broadcast(data), arena.js:514-521: what each connection has been
\* sent after the call
Broadcast(rcv, e) ==
    [ws \in Sockets |->
        IF ws \in spectators /\ wsState[ws] = "open"
        THEN Append(rcv[ws], e)
        ELSE rcv[ws]]

RECURSIVE BroadcastAll(_, _)
BroadcastAll(rcv, evs) ==
    IF evs = <<>> THEN rcv ELSE BroadcastAll(Broadcast(rcv, Head(evs)), Tail(evs))

\* The Battle hands each event to the Arena's broadcast (arena.js:547) in
\* the handler that emits it: the events this step has added to the log go
\* out to the spectators.  The rest of the Arena is left alone.
Broadcasts ==
    /\ received' = BroadcastAll(received, SubSeq(events', Len(events) + 1, Len(events')))
    /\ UNCHANGED <<arenaVars, fnVars, cli>>

\* createBattle() has returned the Battle modelled in full
Created == Len(returned) >= 1

\* no method is being looked at on its own
NoCall == [fn |-> "none"]

\* ------------------------------------------------------- Persistence Sink
\* A write to the sink either succeeds, is skipped (no db) or throws; saveTurn
\* and updateStatus catch and drop the error (arena.js:466, 473-475, 479,
\* 485-487).

\* the battles row after initialize(), arena.js:247-267
InitialRow == IF sinkUp THEN "pending" ELSE "none"

\* updateStatus(s), arena.js:478-488: the status column after the call
UpdateStatus(dbs, s) == IF sinkUp THEN s ELSE dbs

\* variant: the row carries the counter after its increment
SaveTurn_AfterIncrement(rows, td) == IF sinkUp THEN Append(rows, td.turn + 1) ELSE rows

\* saveTurn(turnData), arena.js:465-476: the turns rows after the call
SaveTurn(rows, td) == IF sinkUp THEN Append(rows, td.turn) ELSE rows

\* ------------------------------------------------------------ construction
\* the Battle as Arena.createBattle returns it: constructed and initialized,
\* with config.maxTurns drawn from cfgs
InitWith(cfgs) ==
    /\ configMaxTurns \in cfgs
    /\ maxTurns = BattleMaxTurns(configMaxTurns)
    /\ nAgents \in MinAgents .. MaxAgents
    /\ brainPath \in [0 .. (nAgents - 1) -> BOOLEAN]
    /\ sinkUp \in BOOLEAN
    /\ status = "pending"
    /\ turn = 0
    /\ currentSpeaker = 0
    /\ history = <<>>
    /\ timers = EmptyBag
    /\ inflight = EmptyBag
    /\ completing = EmptyBag
    /\ memories = [a \in 0 .. (nAgents - 1) |-> 0]
    /\ saveCalls = [a \in 0 .. (nAgents - 1) |-> 0]
    /\ dbStatus = InitialRow
    /\ dbTurns = <<>>
    /\ events = <<>>
    /\ started = FALSE
    /\ pauses = 0
    /\ responses = 0
    /\ failures = 0
    /\ op = "create"
    /\ now = 1
    /\ returned = <<1>>
    /\ battles = MapSet(<<>>, 1, 1)
    /\ spectators = {}
    /\ wsState = [ws \in Sockets |-> "none"]
    /\ received = [ws \in Sockets |-> <<>>]
    /\ fnArgs = NoCall
    /\ fnOut = NoCall
    /\ cli = "idle"

\* a Battle with a positive max turn count
Init == InitWith(1 .. MaxTurnsCfg)

\* a Battle configured with maxTurns = 0
InitZero == InitWith({0})

\* ---------------------------------------------------------------- complete
\* Agent.saveBrain suspends on fs.writeFile only when brainPath is set; the
\* brain itself exists by then, because addMemory has just created it.
SaveSuspends(a) == brainPath[a]

\* first agent at or after i whose saveBrain suspends, nAgents if none
RECURSIVE NextSuspend(_)
NextSuspend(i) ==
    IF i >= nAgents THEN nAgents
    ELSE IF SaveSuspends(i) THEN i
    ELSE NextSuspend(i + 1)

\* variant: the event reports the configured limit
CompleteEvent_Limit(t) == [type |-> "complete", turns |-> maxTurns]

\* the complete event, arena.js:455-460
CompleteEvent(t) == [type |-> "complete", turns |-> t]

\* The loop of complete() from agent i on (arena.js:443-460): addMemory and
\* saveBrain for each agent up to the first save that suspends; when the
\* loop runs out, the final updateStatus and the complete event.
\* t, mem, cmp, dbs, ev are the values the handler has reached so far.
CompleteLoop(i, t, mem, cmp, dbs, ev) ==
    LET j == NextSuspend(i) IN
    /\ memories' = [a \in Agents |-> IF a >= i /\ a <= j THEN mem[a] + 1 ELSE mem[a]]
    /\ saveCalls' = [a \in Agents |->
                        IF a >= i /\ a <= j THEN saveCalls[a] + 1 ELSE saveCalls[a]]
    /\ IF j < nAgents
       THEN /\ completing' = BagAdd(cmp, j)
            /\ dbStatus' = dbs
            /\ events' = ev
       ELSE /\ completing' = cmp
            /\ dbStatus' = UpdateStatus(dbs, "complete")
            /\ events' = Append(ev, CompleteEvent(t))

\* complete(), arena.js:438-463, up to its first suspension
Complete(t, dbs, ev) ==
    /\ status' = "complete"
    /\ CompleteLoop(0, t, memories, completing, dbs, ev)

\* ----------------------------------------------------------------- runTurn
\* variant: the entry check only looks for a finished Battle
RunTurnGuard_NotComplete(st) == st # "complete"

\* arena.js:319
RunTurnGuard(st) == st = "running"

\* arena.js:320
MaxReached(t) == t >= maxTurns

\* runTurn(input) from its entry to the dispatch of the Provider call
\* (arena.js:318-329).  st, dbs, ev are the values the calling handler has
\* reached.
RunTurn(input, st, dbs, ev) ==
    IF ~RunTurnGuard(st)
    THEN /\ status' = st
         /\ dbStatus' = dbs
         /\ events' = ev
         /\ UNCHANGED <<inflight, completing, memories, saveCalls>>
    ELSE IF MaxReached(turn)
    THEN /\ Complete(turn, dbs, ev)
         /\ UNCHANGED inflight
    ELSE /\ status' = st
         /\ dbStatus' = dbs
         /\ events' = ev
         /\ inflight' = BagAdd(inflight, [agent |-> currentSpeaker, input |-> input])
         /\ UNCHANGED <<completing, memories, saveCalls>>

\* start(), arena.js:270-316; the creator calls it once (server.js:373)
Start ==
    /\ Created
    /\ ~started
    /\ started' = TRUE
    /\ RunTurn(Opening, "running", UpdateStatus(dbStatus, "running"),
               Append(events, [type |-> "battle_start"]))
    /\ op' = "start"
    /\ UNCHANGED <<configMaxTurns, nAgents, maxTurns, brainPath, sinkUp, turn, currentSpeaker,
                   history, timers, dbTurns, pauses, responses, failures>>
    /\ Broadcasts

\* a setTimeout callback fires: runTurn(c), arena.js:358 and 434
TimerFire(c) ==
    /\ BagIn(c, timers)
    /\ timers' = BagRemove(timers, c)
    /\ RunTurn(c, status, dbStatus, events)
    /\ op' = "timer"
    /\ UNCHANGED <<configMaxTurns, nAgents, maxTurns, brainPath, sinkUp, turn, currentSpeaker,
                   history, dbTurns, started, pauses, responses, failures>>
    /\ Broadcasts

\* ------------------------------------------------- the turn after the await
\* variant: Turns numbered from 1, as the console log of line 351 does
TurnData_OneBased(call, response) ==
    [turn |-> turn + 1,
     speakerIndex |-> currentSpeaker,
     speaker |-> call.agent,
     content |-> response,
     input |-> call.input]

\* arena.js:331-338: the Turn record is built after the Provider call has
\* resolved: turn and speakerIndex are read from the Battle then, speaker and
\* model are those of the agent captured at line 325 before the call.
\* input is the runTurn argument the content was produced from (line 328).
TurnData(call, response) ==
    [turn |-> turn,
     speakerIndex |-> currentSpeaker,
     speaker |-> call.agent,
     content |-> response,
     input |-> call.input]

\* variant: the counter is not advanced
NextTurn_Stuck(t) == t

\* arena.js:341
NextTurn(t) == t + 1

\* variant: no wrap-around
NextSpeaker_NoWrap(s) == s + 1

\* arena.js:355
NextSpeaker(s) == (s + 1) % nAgents

\* arena.js:357
ShouldSchedule(t, st) == t < maxTurns /\ st = "running"

\* variant: strict comparison
ShouldComplete_Strict(t) == t > maxTurns

\* arena.js:359
ShouldComplete(t) == t >= maxTurns

\* the turn event, arena.js:345-349
TurnEvent(td) ==
    [type |-> "turn", turn |-> td.turn, speakerIndex |-> td.speakerIndex,
     speaker |-> td.speaker, content |-> td.content]

\* the error event, arena.js:365-369
ErrorEvent == [type |-> "error"]

\* variant: saveTurn has no handler of its own, a failed write throws
SaveTurnThrows_Uncaught == ~sinkUp

\* saveTurn catches the error of a failed write itself (arena.js:473-475):
\* nothing escapes into the try block of runTurn
SaveTurnThrows == FALSE

\* agent.respond resolved with text: arena.js:329-361
ProviderSuccess(call) ==
    LET response == responses + 1
        td == TurnData(call, response)
        ev == Append(events, TurnEvent(td))
    IN
    /\ BagIn(call, inflight)
    /\ inflight' = BagRemove(inflight, call)
    /\ responses' = response
    /\ op' = "turn"
    /\ history' = Append(history, td)
    /\ turn' = NextTurn(turn)
    /\ dbTurns' = SaveTurn(dbTurns, td)
    /\ IF SaveTurnThrows
       THEN \* an error thrown at line 343 lands in the catch of 363-370
            /\ events' = Append(events, ErrorEvent)
            /\ UNCHANGED <<currentSpeaker, status, timers, completing, memories,
                           saveCalls, dbStatus>>
       ELSE /\ currentSpeaker' = NextSpeaker(currentSpeaker)
            /\ IF ShouldSchedule(turn', status)
               THEN /\ timers' = BagAdd(timers, response)
                    /\ events' = ev
                    /\ UNCHANGED <<status, completing, memories, saveCalls, dbStatus>>
               ELSE IF ShouldComplete(turn')
               THEN /\ Complete(turn', dbStatus, ev)
                    /\ UNCHANGED timers
               ELSE /\ events' = ev
                    /\ UNCHANGED <<status, timers, completing, memories,
                                   saveCalls, dbStatus>>
    /\ UNCHANGED <<configMaxTurns, nAgents, maxTurns, brainPath, sinkUp, started, pauses, failures>>
    /\ Broadcasts

\* variant: a failed turn still passes the floor to the next agent
ProviderFailure_Advances(call) ==
    /\ BagIn(call, inflight)
    /\ inflight' = BagRemove(inflight, call)
    /\ events' = Append(events, ErrorEvent)
    /\ failures' = failures + 1
    /\ op' = "error"
    /\ currentSpeaker' = NextSpeaker(currentSpeaker)
    /\ UNCHANGED <<configMaxTurns, nAgents, maxTurns, brainPath, sinkUp, status,
                   turn, history, timers, completing, memories, saveCalls,
                   dbStatus, dbTurns, started, pauses, responses>>
    /\ Broadcasts

\* agent.respond rejected: the catch block, arena.js:363-370
ProviderFailure(call) ==
    /\ BagIn(call, inflight)
    /\ inflight' = BagRemove(inflight, call)
    /\ events' = Append(events, ErrorEvent)
    /\ failures' = failures + 1
    /\ op' = "error"
    /\ UNCHANGED <<configMaxTurns, nAgents, maxTurns, brainPath, sinkUp, status, turn,
                   currentSpeaker, history, timers, completing, memories, saveCalls,
                   dbStatus, dbTurns, started, pauses, responses>>
    /\ Broadcasts

\* --------------------------------------------------------- pause and resume
\* arena.js:420
PauseStatus(st) == "paused"

\* pause(), arena.js:419-423 (POST /api/battle/:id/pause, server.js:403-411)
Pause ==
    /\ Created
    /\ pauses < MaxPauses
    /\ pauses' = pauses + 1
    /\ op' = "pause"
    /\ status' = PauseStatus(status)
    /\ dbStatus' = UpdateStatus(dbStatus, PauseStatus(status))
    /\ events' = Append(events, [type |-> "paused"])
    /\ UNCHANGED <<configMaxTurns, nAgents, maxTurns, brainPath, sinkUp, turn, currentSpeaker,
                   history, timers, inflight, completing, memories, saveCalls, dbTurns,
                   started, responses, failures>>
    /\ Broadcasts

\* variant: resume() only refuses a running Battle
ResumeGuard_NotRunning(st) == st # "running"

\* arena.js:426
ResumeGuard(st) == st = "paused"

\* variant: resume() schedules a turn whether or not there is a last Turn
ResumeTimers_Always(h, tm) ==
    BagAdd(tm, IF Len(h) > 0 THEN h[Len(h)].content ELSE Opening)

\* arena.js:432-435: the timers after resume() has scheduled its turn
ResumeTimers(h, tm) ==
    IF Len(h) > 0 THEN BagAdd(tm, h[Len(h)].content) ELSE tm

\* resume(), arena.js:425-436 (POST /api/battle/:id/resume, server.js:414-422)
Resume ==
    /\ Created
    /\ op' = "resume"
    /\ IF ~ResumeGuard(status)
       THEN UNCHANGED <<configMaxTurns, nAgents, maxTurns, brainPath, sinkUp,
                        status, turn, currentSpeaker, history, timers, inflight,
                        completing, memories, saveCalls, dbStatus, dbTurns,
                        events, started, pauses, responses, failures>>
       ELSE /\ status' = "running"
            /\ dbStatus' = UpdateStatus(dbStatus, "running")
            /\ events' = Append(events, [type |-> "resumed"])
            /\ timers' = ResumeTimers(history, timers)
            /\ UNCHANGED <<configMaxTurns, nAgents, maxTurns, brainPath, sinkUp,
                           turn, currentSpeaker, history, inflight, completing,
                           memories, saveCalls, dbTurns, started, pauses,
                           responses, failures>>
    /\ Broadcasts

\* variant: a failed write rejects saveBrain and with it complete()
SaveReturns_Throwing(ok) == ok

\* saveBrain returns normally whether or not the write threw: the error is
\* caught and logged (arena.js:125-130)
SaveReturns(ok) == TRUE

\* fs.writeFile of agent a's brain has settled (ok: it succeeded); complete()
\* goes on with the next agent (arena.js:451, then 443-460)
SaveBrainDone(a, ok) ==
    /\ BagIn(a, completing)
    /\ op' = IF ok THEN "saved" ELSE "save_failed"
    /\ IF SaveReturns(ok)
       THEN CompleteLoop(a + 1, turn, memories, BagRemove(completing, a),
                         dbStatus, events)
       ELSE /\ completing' = BagRemove(completing, a)
            /\ UNCHANGED <<memories, saveCalls, dbStatus, events>>
    /\ UNCHANGED <<configMaxTurns, nAgents, maxTurns, brainPath, sinkUp, status, turn,
                   currentSpeaker, history, timers, inflight, dbTurns, started,
                   pauses, responses, failures>>
    /\ Broadcasts

\* ------------------------------------------------- the Arena's operations
battleVars == <<configMaxTurns, nAgents, maxTurns, brainPath, sinkUp, status,
                turn, currentSpeaker, history, timers, inflight, completing,
                memories, saveCalls, dbTurns, events, started, pauses,
                responses, failures>>

\* variant: the snapshot leaves the transcript out
ToJSON_NoHistory(k) ==
    [status |-> IF k = 1 THEN status ELSE "pending",
     turn |-> IF k = 1 THEN turn ELSE 0,
     maxTurns |-> maxTurns,
     history |-> <<>>]

\* Battle.toJSON(), arena.js:490-500, of the Battle with creation number k.
\* Battles created after the first are not started in the model: they keep
\* the state the constructor gave them.
ToJSON(k) ==
    IF k = 1
    THEN [status |-> status, turn |-> turn, maxTurns |-> maxTurns, history |-> history]
    ELSE [status |-> "pending", turn |-> 0, maxTurns |-> maxTurns, history |-> <<>>]

\* the snapshot sent on join, arena.js:525-528
StateMessage ==
    [type |-> "state", battles |-> [id \in DOMAIN battles |-> ToJSON(battles[id])]]

\* a WebSocket connection is made: wss.on('connection') calls
\* arena.addSpectator(ws), server.js:609-610 and arena.js:523-529.
\* Connections are numbered in the order they are made.
AddSpectator(ws) ==
    /\ wsState[ws] = "none"
    /\ \A w \in Sockets : w < ws => wsState[w] # "none"
    /\ wsState' = [wsState EXCEPT ![ws] = "open"]
    /\ spectators' = spectators \cup {ws}
    /\ received' = [received EXCEPT ![ws] = Append(@, StateMessage)]
    /\ UNCHANGED <<battleVars, dbStatus, op, battles, returned, now, fnVars, cli>>

\* the transport of a connection goes down: its readyState leaves OPEN
\* before the close event is handled
TransportClose(ws) ==
    /\ wsState[ws] = "open"
    /\ wsState' = [wsState EXCEPT ![ws] = "closed"]
    /\ UNCHANGED <<battleVars, dbStatus, op, battles, returned, now, spectators,
                   received, fnVars, cli>>

\* ws.on('close') calls arena.removeSpectator(ws), server.js:612-613 and
\* arena.js:531-533
RemoveSpectator(ws) ==
    /\ wsState[ws] = "closed"
    /\ ws \in spectators
    /\ spectators' = spectators \ {ws}
    /\ UNCHANGED <<battleVars, dbStatus, op, battles, returned, now, wsState,
                   received, fnVars, cli>>

\* the id of a Battle created at time t: the server passes id: Date.now()
\* (server.js:365) and the constructor keeps it (arena.js:222)
BattleId(t) == t

\* Arena.createBattle(config), arena.js:535-551: constructor, initialize()
\* (for Battle 1 the pending row of arena.js:247-267), registration under
\* the id, return
CreateBattle ==
    /\ Len(returned) < MaxBattles
    /\ returned' = Append(returned, BattleId(now))
    /\ battles' = MapSet(battles, BattleId(now), Len(returned) + 1)
    /\ dbStatus' = IF Len(returned) = 0 THEN InitialRow ELSE dbStatus
    /\ UNCHANGED <<battleVars, op, now, spectators, wsState, received, fnVars, cli>>

\* the clock moves on by a millisecond
Tick ==
    /\ now < MaxBattles
    /\ now' = now + 1
    /\ UNCHANGED <<battleVars, dbStatus, op, battles, returned, spectators, wsState,
                   received, fnVars, cli>>

\* the Arena as its constructor leaves it (arena.js:508-512), with the
\* configuration of the first Battle to be created already chosen
NewArena ==
    /\ configMaxTurns = MaxTurnsCfg
    /\ maxTurns = BattleMaxTurns(configMaxTurns)
    /\ nAgents = MinAgents
    /\ brainPath = [a \in 0 .. (nAgents - 1) |-> FALSE]
    /\ status = "pending"
    /\ turn = 0
    /\ currentSpeaker = 0
    /\ history = <<>>
    /\ timers = EmptyBag
    /\ inflight = EmptyBag
    /\ completing = EmptyBag
    /\ memories = [a \in 0 .. (nAgents - 1) |-> 0]
    /\ saveCalls = [a \in 0 .. (nAgents - 1) |-> 0]
    /\ dbStatus = "none"
    /\ dbTurns = <<>>
    /\ events = <<>>
    /\ started = FALSE
    /\ pauses = 0
    /\ responses = 0
    /\ failures = 0
    /\ op = "create"
    /\ now = 1
    /\ returned = <<>>
    /\ battles = <<>>
    /\ spectators = {}
    /\ wsState = [ws \in Sockets |-> "none"]
    /\ received = [ws \in Sockets |-> <<>>]

\* the Persistence Sink is there or not; no method is looked at on its own
ArenaInit ==
    /\ NewArena
    /\ sinkUp \in BOOLEAN
    /\ fnArgs = NoCall
    /\ fnOut = NoCall
    /\ cli = "idle"

\* a Battle of two agents without Brain files, created and registered
SpectatorInit ==
    /\ InitWith({MaxTurnsCfg})
    /\ nAgents = MinAgents
    /\ \A a \in Agents : ~brainPath[a]
    /\ sinkUp

\* ------------------------------------------------------------ the CLI
\* CLIBattle.run() is called and creates its Battle (cli.js:214-254); the
\* Battle is as createBattle() returns it
CliRun ==
    /\ cli = "idle"
    /\ ~started
    /\ cli' = "called"
    /\ UNCHANGED <<battleVars, dbStatus, op, arenaVars, received, fnVars>>

\* run() calls start() (cli.js:256)
CliStart == cli = "called" /\ Start

\* start() has resolved: its runTurn(opening) has come to its end, which
\* with maxTurns = 1 includes the complete() it awaits (arena.js:315, 328,
\* 359-360)
StartResolved ==
    /\ started
    /\ \A c \in BagToSet(inflight) : c.input # Opening
    /\ maxTurns = 1 => completing = EmptyBag

\* the wait loop of cli.js:259-261 finds the status no longer running and
\* run() returns; a poll that finds it running changes nothing
CliReturn ==
    /\ cli = "called"
    /\ StartResolved
    /\ status # "running"
    /\ cli' = "returned"
    /\ UNCHANGED <<battleVars, dbStatus, op, arenaVars, received, fnVars>>

\* ------------------------------------------------------- the built texts
\* the empty string; null and undefined where only truthiness is looked at
Absent == <<>>

\* a || b on texts
Or(a, b) == IF a # Absent THEN a ELSE b

\* an optional text field: not given, or given with the text named
Optional(token) == {Absent, <<token>>}

\* the name createBattle() gives agent i when the request has none,
\* arena.js:539
AgentName(i) == <<"Agent ", ToString(i + 1)>>

\* texts.join(sep), with texts a sequence of texts
RECURSIVE Join(_, _)
Join(texts, sep) ==
    IF texts = <<>> THEN <<>>
    ELSE IF Len(texts) = 1 THEN Head(texts)
    ELSE Head(texts) \o sep \o Join(Tail(texts), sep)

\* variant: the shared prompt comes first
BasePrompt_SharedFirst(directive, shared) == Or(shared, Or(directive, <<"Begin.">>))

\* arena.js:298  agent0.prompt || this.prompt || 'Begin.'
BasePrompt(directive, shared) == Or(directive, Or(shared, <<"Begin.">>))

\* arena.js:309  this.agents.slice(1).map(a => a.name).join(', ')
OtherAgents(n) == Join([i \in 1 .. (n - 1) |-> AgentName(i)], <<", ">>)

\* variant: the other participants are named in either mode
OpeningMessage_AlwaysDiscloses(b) ==
    BasePrompt(b.directive, b.prompt)
        \o <<"\n\nYou are starting. Other participant(s): ">> \o OtherAgents(b.nAgents)

\* the opening start() hands to runTurn, arena.js:296-315; b is the Battle:
\* its shared prompt, agent 0's directive, its anonymity mode, its agents
OpeningMessage(b) ==
    IF b.anonymousMode
    THEN BasePrompt(b.directive, b.prompt)
    ELSE BasePrompt(b.directive, b.prompt)
             \o <<"\n\nYou are starting. Other participant(s): ">>
             \o OtherAgents(b.nAgents)

\* the Battles start() is looked at for
StartInputs ==
    [fn : {"start"},
     nAgents : MinAgents .. MaxAgents,
     prompt : Optional("shared prompt"),
     directive : Optional("directive"),
     anonymousMode : BOOLEAN]

\* start() computes its opening
CallStart ==
    /\ fnArgs.fn = "start"
    /\ fnOut = NoCall
    /\ fnOut' = [fn |-> "start", opening |-> OpeningMessage(fnArgs)]
    /\ UNCHANGED <<battleVars, dbStatus, op, arenaVars, received, fnArgs, cli>>

\* this.history.some(e => e.speakerIndex === speakerIndex), arena.js:378
AgentHasSpoken(h, speakerIndex) ==
    \E i \in 1 .. Len(h) : h[i].speakerIndex = speakerIndex

\* arena.js:381-396: the prefix of an agent's first message
FirstMessagePrefix(b, speakerIndex) ==
    IF AgentHasSpoken(b.history, speakerIndex) THEN Absent
    ELSE (IF b.prompt # Absent
          THEN <<"[Context: ">> \o b.prompt \o <<"]\n\n">>
          ELSE Absent)
         \o (IF b.directives[speakerIndex] = Absent THEN Absent
             ELSE IF b.anonymousMode
             THEN b.directives[speakerIndex] \o <<"\n\n">>
             ELSE <<"[Your directive: ">> \o b.directives[speakerIndex] \o <<"]\n\n">>)

\* variant: the roles are the other way round
Role_Swapped(entry, speakerIndex) ==
    IF entry.speakerIndex = speakerIndex THEN "user" ELSE "assistant"

\* arena.js:399
Role(entry, speakerIndex) ==
    IF entry.speakerIndex = speakerIndex THEN "assistant" ELSE "user"

\* the word-limit instruction of arena.js:407
WordLimit(maxWords) == <<"[", ToString(maxWords), " words max.] ">>

\* variant: the limit is never stated
LastMessageContent_NoLimit(b, lastMessage) == lastMessage

\* arena.js:403-408
LastMessageContent(b, lastMessage) ==
    IF b.maxWords # 0 /\ lastMessage # Absent
    THEN WordLimit(b.maxWords) \o lastMessage
    ELSE lastMessage

\* buildMessages(speakerIndex, lastMessage), arena.js:373-417, on Battle b
BuildMessages(b, speakerIndex, lastMessage) ==
    [i \in 1 .. Len(b.history) |->
        [role |-> Role(b.history[i], speakerIndex), content |-> b.history[i].content]]
    \o (IF LastMessageContent(b, lastMessage) # Absent
        THEN <<[role |-> "user",
                content |-> FirstMessagePrefix(b, speakerIndex)
                                \o LastMessageContent(b, lastMessage)]>>
        ELSE <<>>)

\* the text of the k-th Provider response
Response(k) == <<"response ", ToString(k)>>

\* The transcripts of runs without failures: the speakers take turns from
\* agent 0 (arena.js:355) and a Provider may answer with the empty string
\* (OllamaProvider.chat, arena.js:70).
Histories ==
    UNION {{[k \in 1 .. len |->
               [speakerIndex |-> (k - 1) % MinAgents,
                content |-> IF k \in empty THEN Absent ELSE Response(k)]]
            : empty \in SUBSET (1 .. len)}
           : len \in 0 .. MaxHistory}

\* the Battles buildMessages is looked at for
MessageBattles ==
    [fn : {"buildMessages"},
     nAgents : {MinAgents},
     history : Histories,
     prompt : Optional("shared prompt"),
     directives : [0 .. (MinAgents - 1) -> Optional("directive")],
     anonymousMode : BOOLEAN,
     maxWords : 0 .. MaxWords]

\* The input of the next turn, as runTurn passes it on: the opening for the
\* first turn (arena.js:315), afterwards the content of the last Turn
\* (arena.js:358, 434)
NextInput(b) ==
    IF b.history = <<>>
    THEN OpeningMessage([nAgents |-> b.nAgents, prompt |-> b.prompt,
                         directive |-> b.directives[0],
                         anonymousMode |-> b.anonymousMode])
    ELSE b.history[Len(b.history)].content

\* runTurn builds the messages for the speaker whose turn it is,
\* arena.js:327
CallBuildMessages ==
    /\ fnArgs.fn = "buildMessages"
    /\ fnOut = NoCall
    /\ fnOut' = [fn |-> "buildMessages",
                 speakerIndex |-> Len(fnArgs.history) % MinAgents,
                 lastMessage |-> NextInput(fnArgs),
                 messages |-> BuildMessages(fnArgs, Len(fnArgs.history) % MinAgents,
                                            NextInput(fnArgs)),
                 history |-> fnArgs.history]
    /\ UNCHANGED <<battleVars, dbStatus, op, arenaVars, received, fnArgs, cli>>

\* what a method returns: null, or a string
Null == [null |-> TRUE]
Str(text) == [null |-> FALSE, text |-> text]

\* variant: the empty prompt is returned as it is
OrNull_Empty(text) == Str(text)

\* arena.js:181  prompt || null
OrNull(text) == IF text = Absent THEN Null ELSE Str(text)

\* no Brain: this.brain is null
NoBrain == [loaded |-> FALSE]

\* The Brains an Agent may hold.  A knowledge entry has a definition or has
\* none; entries and memories are numbered in the order they are stored.
\* stats is the Brain's stats.totalConversations, -1 for a Brain without
\* stats.
Brains ==
    [loaded : {TRUE},
     soul : Optional("brain soul"),
     concepts : UNION {[1 .. n -> BOOLEAN] : n \in 0 .. MaxEntries},
     memories : 0 .. MaxEntries,
     stats : -1 .. 1]

\* Brains that hold as much as the prompt shows, or up to MaxEntries more:
\* KnowledgeLimit + e knowledge entries, every one with a definition but
\* possibly one of them, and MemoryLimit + e memories
LargeBrains ==
    [loaded : {TRUE},
     soul : {Absent},
     concepts : {[k \in 1 .. (KnowledgeLimit + e) |-> k # missing] :
                    e \in 0 .. MaxEntries, missing \in {0, 1, KnowledgeLimit}},
     memories : {MemoryLimit + e : e \in 0 .. MaxEntries},
     stats : {-1}]

\* s.slice(0, n)
SliceFirst(s, n) == SubSeq(s, 1, IF Len(s) < n THEN Len(s) ELSE n)

\* variant: the oldest n are taken
SliceLast_Oldest(s, n) == SubSeq(s, 1, IF Len(s) < n THEN Len(s) ELSE n)

\* s.slice(-n)
SliceLast(s, n) == SubSeq(s, IF Len(s) < n THEN 1 ELSE Len(s) - n + 1, Len(s))

\* arena.js:159-161: the line of knowledge entry k, if it has a definition
ConceptLine(k, defined) ==
    IF defined
    THEN <<"- ", "concept ", ToString(k), ": ", "definition ", ToString(k), "\n">>
    ELSE <<>>

\* the forEach of arena.js:158-162 over the entries shown
RECURSIVE ConceptLines(_, _)
ConceptLines(concepts, shown) ==
    IF shown = <<>> THEN <<>>
    ELSE ConceptLine(Head(shown), concepts[Head(shown)])
             \o ConceptLines(concepts, Tail(shown))

\* arena.js:153-164
KnowledgeSection(concepts) ==
    IF Len(concepts) > 0
    THEN <<"## Your Knowledge\n">>
             \o ConceptLines(concepts,
                             SliceFirst([k \in 1 .. Len(concepts) |-> k], KnowledgeLimit))
             \o <<"\n">>
    ELSE Absent

\* arena.js:171: the line of memory k
MemoryLine(k) == <<"- ", "key ", ToString(k), ": ", "value ", ToString(k), "\n">>

\* the forEach of arena.js:170-172 over the memories shown
RECURSIVE MemoryLines(_)
MemoryLines(shown) ==
    IF shown = <<>> THEN <<>> ELSE MemoryLine(Head(shown)) \o MemoryLines(Tail(shown))

\* arena.js:167-173
MemorySection(stored) ==
    IF stored > 0
    THEN <<"## Recent Memories\n">>
             \o MemoryLines(SliceLast([k \in 1 .. stored |-> k], MemoryLimit))
    ELSE Absent

\* arena.js:176-178
CounterLine(stats) ==
    IF stats >= 0
    THEN <<"\nYou have had ", ToString(stats), " conversations.\n">>
    ELSE Absent

\* arena.js:137-139
IdentityLine(a) ==
    IF a.anonymous THEN Absent ELSE <<"You are ">> \o a.name \o <<".\n\n">>

\* arena.js:142-144
SoulSection(a) == IF a.soul # Absent THEN a.soul \o <<"\n\n">> ELSE Absent

\* arena.js:147-179
BrainSections(a) ==
    IF a.brain = NoBrain THEN Absent
    ELSE (IF a.brain.soul # Absent /\ a.soul = Absent
          THEN a.brain.soul \o <<"\n\n">>
          ELSE Absent)
         \o KnowledgeSection(a.brain.concepts)
         \o MemorySection(a.brain.memories)
         \o CounterLine(a.brain.stats)

\* Agent.buildSystemPrompt(), arena.js:133-182
BuildSystemPrompt(a) ==
    OrNull(IdentityLine(a) \o SoulSection(a) \o BrainSections(a))

\* the Agents buildSystemPrompt is looked at for
PromptAgents ==
    [fn : {"buildSystemPrompt"},
     name : {AgentName(0)},
     anonymous : BOOLEAN,
     soul : Optional("soul"),
     brain : {NoBrain} \cup Brains \cup LargeBrains]

\* Agent.respond builds the system prompt, arena.js:185
CallBuildSystemPrompt ==
    /\ fnArgs.fn = "buildSystemPrompt"
    /\ fnOut = NoCall
    /\ fnOut' = [fn |-> "buildSystemPrompt", prompt |-> BuildSystemPrompt(fnArgs)]
    /\ UNCHANGED <<battleVars, dbStatus, op, arenaVars, received, fnArgs, cli>>

\* a Battle or an Agent as configured, and none of its methods called yet
TextInit ==
    /\ NewArena
    /\ sinkUp = TRUE
    /\ fnArgs \in StartInputs \cup MessageBattles \cup PromptAgents
    /\ fnOut = NoCall
    /\ cli = "idle"

\* ------------------------------------------------------------ specification
TimerStep == \E c \in BagToSet(timers) : TimerFire(c)

ProviderStep ==
    \E call \in BagToSet(inflight) : ProviderSuccess(call) \/ ProviderFailure(call)

SaveStep == \E a \in BagToSet(completing), ok \in BOOLEAN : SaveBrainDone(a, ok)

Next ==
    \/ Start
    \/ TimerStep
    \/ ProviderStep
    \/ Pause
    \/ Resume
    \/ SaveStep

Spec == Init /\ [][Next]_vars

\* the Battle created with maxTurns: 0 and left to run: nobody calls pause()
\* or resume()
ZeroNext ==
    \/ Start
    \/ TimerStep
    \/ ProviderStep
    \/ SaveStep

ZeroSpec == InitZero /\ [][ZeroNext]_vars

\* the Arena creating Battles, the first of them running
ArenaNext ==
    \/ CreateBattle
    \/ Tick
    \/ Start
    \/ TimerStep
    \/ ProviderStep
    \/ Pause
    \/ Resume

ArenaSpec == ArenaInit /\ [][ArenaNext]_vars

\* a Battle running without control requests and the spectators of its Arena
SpectatorNext ==
    \/ \E ws \in Sockets : AddSpectator(ws)
    \/ \E ws \in Sockets : TransportClose(ws)
    \/ \E ws \in Sockets : RemoveSpectator(ws)
    \/ Start
    \/ TimerStep
    \/ ProviderStep

SpectatorSpec == SpectatorInit /\ [][SpectatorNext]_vars

\* the text-building methods, each called on the configurations it can meet
TextNext ==
    \/ CallStart
    \/ CallBuildMessages
    \/ CallBuildSystemPrompt

TextSpec == TextInit /\ [][TextNext]_vars

\* a Battle run from the command line: nobody calls pause() or resume()
CliNext ==
    \/ CliRun
    \/ CliStart
    \/ TimerStep
    \/ ProviderStep
    \/ SaveStep
    \/ CliReturn

CliSpec == Init /\ [][CliNext]_vars

\* timers fire, Provider calls return and file writes settle
LiveSpec ==
    /\ Spec
    /\ WF_vars(TimerStep)
    /\ WF_vars(ProviderStep)
    /\ WF_vars(SaveStep)

TypeOK ==
    /\ status \in Statuses
    /\ turn \in Nat
    /\ currentSpeaker \in Agents
    /\ op \in {"create", "start", "timer", "turn", "error", "pause", "resume",
               "saved", "save_failed"}
    /\ cli \in {"idle", "called", "returned"}

\* ================================================================== claims
IsPrefix(p, q) == Len(p) <= Len(q) /\ SubSeq(q, 1, Len(p)) = p

AllowedTransitions ==
    {<<"pending", "running">>, <<"running", "paused">>,
     <<"paused", "running">>, <<"running", "complete">>}

\* C1: every change of the status is one of pending->running,
\* running->paused, paused->running, running->complete; pause() while the
\* status is not running leaves the status as it is.
C1_StatusTransitions ==
    [][status' # status => <<status, status'>> \in AllowedTransitions]_vars

\* C2: complete is terminal: once the status is complete it stays complete.
C2_CompleteTerminal ==
    [][status = "complete" => status' = "complete"]_vars

\* C3: at most one Provider call of the Battle is in flight at any time.
C3_OneCallInFlight == BagCardinality(inflight) <= 1

\* C4: the transcript length equals the turn counter in every reachable
\* state, also after Provider failures, pause/resume races and failed
\* Persistence Sink writes.
C4_TranscriptLenIsTurn == Len(history) = turn

C4_Witness ==
    /\ Len(history) >= 2
    /\ failures > 0
    /\ ~sinkUp
    /\ \E i \in 1 .. Len(events) : events[i].type = "resumed"

\* C5: the transcript is append-only (each step keeps the previous
\* transcript as a prefix of the new one) and the entry at position k has
\* turn index k.
Indexed(h) == \A k \in 1 .. Len(h) : h[k].turn = k - 1

C5_AppendOnlyIndexed ==
    [][IsPrefix(history, history') /\ Indexed(history)']_vars

\* a transcript that grew past maxTurns through a pause()/resume() race
C5_Witness ==
    /\ Len(history) >= 3
    /\ Len(history) > maxTurns
    /\ pauses > 0

\* C6: round-robin: the Turn with index k has speakerIndex k mod N, and the
\* current speaker index is in [0, N) and equals the turn counter mod N.
C6_RoundRobin ==
    /\ \A k \in 1 .. Len(history) : history[k].speakerIndex = (k - 1) % nAgents
    /\ currentSpeaker \in Agents
    /\ currentSpeaker = turn % nAgents

C6_Witness ==
    /\ turn > nAgents
    /\ currentSpeaker # 0
    /\ Len(history) = turn

\* C7: once start() has been called, if no Provider call fails and pause()
\* is never called, the Battle eventually is complete with the turn counter
\* at maxTurns and exactly maxTurns Turns in the transcript.
C7_Done == status = "complete" /\ turn = maxTurns /\ Len(history) = maxTurns

C7_EventuallyComplete ==
    started ~> (C7_Done \/ pauses > 0 \/ failures > 0)

C7_Witness == C7_Done /\ maxTurns >= 2 /\ pauses = 0 /\ failures = 0

\* C8: while the Battle is paused (pause() with no later resume()) the turn
\* counter and the transcript do not change: the result of a Provider call
\* that was in flight at pause() is discarded.
C8_PauseFreezes ==
    [][status = "paused" => (turn' = turn /\ history' = history)]_vars

\* C9: a runTurn() that fires from a timer while the status is not running
\* makes no Provider call, appends no Turn, changes neither turn counter nor
\* speaker index nor status, emits no event, writes nothing and schedules no
\* further turn: the step only consumes the timer.
TimerFired == BagCardinality(timers') = BagCardinality(timers) - 1

C9_NotRunningNoop ==
    [][(status # "running" /\ TimerFired) =>
          /\ UNCHANGED <<status, turn, currentSpeaker, history, inflight,
                         events, completing, memories, dbStatus, dbTurns>>
          /\ \A c \in BagToSet(timers') : CopiesIn(c, timers') <= CopiesIn(c, timers)]_vars

EventTypes == [i \in 1 .. Len(events) |-> events[i].type]

\* the timer scheduled after turn 0 has gone, and not into a Provider call:
\* it fired while the Battle was paused
C9_Witness ==
    /\ EventTypes = <<"battle_start", "turn", "paused">>
    /\ maxTurns >= 2
    /\ timers = EmptyBag
    /\ inflight = EmptyBag

\* C10: for every k >= 1 the Turn at position k was produced from the
\* content of the Turn at position k-1, and no two Turns were produced from
\* the same input.
C10_ChainedNoDuplicate ==
    /\ \A k \in 2 .. Len(history) : history[k].input = history[k - 1].content
    /\ \A i, j \in 1 .. Len(history) :
           i # j => history[i].input # history[j].input

\* C11: resume() while the status is not paused (pending, running or
\* complete) changes no state, persists nothing, emits no resumed event and
\* schedules no turn.
C11_ResumeNotPausedNoop ==
    [][(op' = "resume" /\ status # "paused") =>
          UNCHANGED <<status, turn, currentSpeaker, history, timers, inflight,
                      completing, memories, saveCalls, dbStatus, dbTurns,
                      events, pauses, responses, failures>>]_vars

\* resume() has just returned on a running Battle whose Provider call is out
C11_Witness ==
    /\ op = "resume"
    /\ status = "running"
    /\ inflight # EmptyBag
    /\ \A i \in 1 .. Len(events) : events[i].type # "resumed"

\* C12: when the Provider call of a turn fails, an error event is broadcast
\* and the failure leaves transcript, turn counter, current speaker index
\* and status as they were (a running Battle is still running); the
\* transcript grows only in a step in which a Provider call has succeeded,
\* and then by the Turn holding that response.
C12_FailureKeepsState ==
    [][/\ failures' # failures =>
             /\ failures' = failures + 1
             /\ events' = Append(events, ErrorEvent)
             /\ UNCHANGED <<status, turn, currentSpeaker, history, dbTurns>>
       /\ history' # history =>
             /\ responses' = responses + 1
             /\ Len(history') = Len(history) + 1
             /\ IsPrefix(history, history')
             /\ history'[Len(history')].content = responses']_vars

\* a Provider call has just failed on a running Battle that already has a Turn
C12_Witness ==
    /\ op = "error"
    /\ status = "running"
    /\ Len(history) >= 1
    /\ events[Len(events)] = ErrorEvent

\* a call or a timer exists after the step that did not exist before it
NewCall == \E c \in BagToSet(inflight') : CopiesIn(c, inflight') > CopiesIn(c, inflight)

NewTimer == \E c \in BagToSet(timers') : CopiesIn(c, timers') > CopiesIn(c, timers)

\* the last thing the Battle broadcast is the error event of a failed turn
AfterFailure == Len(events) > 0 /\ events[Len(events)].type = "error"

ControlStep == op' \in {"start", "pause", "resume"}

\* C13: after a Provider failure the loop does not go on by itself: until
\* an external control operation is invoked, no further Provider call is
\* made and no timer is scheduled.
C13_NoSelfResume ==
    [][(AfterFailure /\ ~ControlStep) => (~NewCall /\ ~NewTimer)]_vars

\* a Provider failure has left the Battle running with a non-empty
\* transcript and neither a timer nor a call pending
Stalled ==
    /\ AfterFailure
    /\ status = "running"
    /\ timers = EmptyBag
    /\ inflight = EmptyBag
    /\ Len(history) > 0

\* C14: when a Provider failure has left the Battle running with no
\* scheduled turn, a resume() makes it continue: a new turn is scheduled
\* whose input is the content of the last successful Turn.
C14_ResumeRecovers ==
    [][(Stalled /\ op' = "resume") =>
          timers' = BagAdd(timers, history[Len(history)].content)]_vars

\* C15: a Battle configured with maxTurns = 0 goes, once started, directly
\* from running to complete: start() leaves it complete, and no Provider
\* call is ever made and no Turn ever produced.
C15_ZeroTurnsCompletes ==
    [][configMaxTurns = 0 =>
          /\ (~started /\ started') => status' = "complete"
          /\ inflight' = EmptyBag
          /\ history' = <<>>]_vars

\* number of complete events broadcast so far
NumComplete == Cardinality({i \in 1 .. Len(events) : events[i].type = "complete"})

\* number of complete() invocations waiting for the saveBrain of agent a or
\* of a later agent: they have passed agent a's addMemory
RECURSIVE SuspendedFrom(_)
SuspendedFrom(a) ==
    IF a >= nAgents THEN 0 ELSE CopiesIn(a, completing) + SuspendedFrom(a + 1)

\* every complete() invocation that has reached agent a has given it one
\* memory entry and one saveBrain call
OnePerCompletion ==
    \A a \in Agents :
        /\ memories[a] = NumComplete + SuspendedFrom(a)
        /\ saveCalls[a] = memories[a]

\* C16: when a Battle completes, every Agent receives exactly one new
\* memory entry and one save of its Brain is attempted, and the complete
\* event reports the turn counter, which is the transcript length.
C16_CompletionMemories ==
    [][/\ OnePerCompletion'
       /\ NumComplete' # NumComplete =>
             /\ NumComplete' = NumComplete + 1
             /\ events'[Len(events')].type = "complete"
             /\ events'[Len(events')].turns = turn'
             /\ events'[Len(events')].turns = Len(history')]_vars

\* the complete event has just gone out after a Brain write settled
C16_Witness ==
    /\ op \in {"saved", "save_failed"}
    /\ events[Len(events)].type = "complete"
    /\ \A a \in Agents : memories[a] = 1 /\ saveCalls[a] = 1
    /\ turn = maxTurns

\* a write of some agent's Brain file starts in this step
NewWrite ==
    \E a \in BagToSet(completing') : CopiesIn(a, completing') > CopiesIn(a, completing)

\* C17: a Brain is written to storage and gains a memory entry only as part
\* of completion: never while the Battle is pending, running or paused.
C17_BrainOnlyAtCompletion ==
    [][(memories' # memories \/ NewWrite) => status' = "complete"]_vars

\* ---- the Battle whose Persistence Sink never fails, seen from memory ----
\* Every db call returns normally, so a handler runs its statements in
\* order; only the in-memory state is described.
memvars == <<status, turn, currentSpeaker, history, timers, inflight,
             completing, memories, saveCalls, events>>

\* complete() from agent i on, arena.js:443-460
WorkingCompleteLoop(i, cmp, ev) ==
    LET j == NextSuspend(i)
        inc(f) == [a \in Agents |-> IF a >= i /\ a <= j THEN f[a] + 1 ELSE f[a]]
    IN
    /\ memories' = inc(memories)
    /\ saveCalls' = inc(saveCalls)
    /\ completing' = IF j < nAgents THEN BagAdd(cmp, j) ELSE cmp
    /\ events' = IF j < nAgents THEN ev ELSE Append(ev, CompleteEvent(turn'))

\* runTurn(input), arena.js:318-329
WorkingRunTurn(input, st, ev) ==
    IF st = "running" /\ turn >= maxTurns
    THEN /\ status' = "complete"
         /\ WorkingCompleteLoop(0, completing, ev)
         /\ UNCHANGED inflight
    ELSE /\ status' = st
         /\ events' = ev
         /\ inflight' = IF st = "running"
                        THEN BagAdd(inflight, [agent |-> currentSpeaker, input |-> input])
                        ELSE inflight
         /\ UNCHANGED <<completing, memories, saveCalls>>

\* the turn after a Provider call has resolved, arena.js:331-361
WorkingTurn(call) ==
    LET td == [turn |-> turn, speakerIndex |-> currentSpeaker,
               speaker |-> call.agent, content |-> responses + 1,
               input |-> call.input]
        ev == Append(events, TurnEvent(td))
    IN
    /\ inflight' = BagRemove(inflight, call)
    /\ history' = Append(history, td)
    /\ turn' = turn + 1
    /\ currentSpeaker' = (currentSpeaker + 1) % nAgents
    /\ IF turn' < maxTurns /\ status = "running"
       THEN /\ timers' = BagAdd(timers, td.content)
            /\ events' = ev
            /\ UNCHANGED <<status, completing, memories, saveCalls>>
       ELSE IF turn' >= maxTurns
       THEN /\ status' = "complete"
            /\ WorkingCompleteLoop(0, completing, ev)
            /\ UNCHANGED timers
       ELSE /\ events' = ev
            /\ UNCHANGED <<status, timers, completing, memories, saveCalls>>

WorkingStep ==
    \/ /\ op' = "start"
       /\ WorkingRunTurn(Opening, "running", Append(events, [type |-> "battle_start"]))
       /\ UNCHANGED <<turn, currentSpeaker, history, timers>>
    \/ /\ op' = "timer"
       /\ \E c \in BagToSet(timers) :
              /\ timers' = BagRemove(timers, c)
              /\ WorkingRunTurn(c, status, events)
       /\ UNCHANGED <<turn, currentSpeaker, history>>
    \/ /\ op' = "turn"
       /\ \E call \in BagToSet(inflight) : WorkingTurn(call)
    \/ /\ op' = "error"
       /\ \E call \in BagToSet(inflight) : inflight' = BagRemove(inflight, call)
       /\ events' = Append(events, ErrorEvent)
       /\ UNCHANGED <<status, turn, currentSpeaker, history, timers, completing,
                      memories, saveCalls>>
    \/ /\ op' = "pause"
       /\ status' = "paused"
       /\ events' = Append(events, [type |-> "paused"])
       /\ UNCHANGED <<turn, currentSpeaker, history, timers, inflight, completing,
                      memories, saveCalls>>
    \/ /\ op' = "resume"
       /\ IF status = "paused"
          THEN /\ status' = "running"
               /\ events' = Append(events, [type |-> "resumed"])
               /\ timers' = ResumeTimers(history, timers)
               /\ UNCHANGED <<turn, currentSpeaker, history, inflight, completing,
                              memories, saveCalls>>
          ELSE UNCHANGED memvars
    \/ /\ op' \in {"saved", "save_failed"}
       /\ \E a \in BagToSet(completing) :
              WorkingCompleteLoop(a + 1, BagRemove(completing, a), events)
       /\ UNCHANGED <<status, turn, currentSpeaker, history, timers, inflight>>

\* C18: Persistence Sink failures are never fatal: whether the writes of
\* initialize(), saveTurn() and updateStatus() succeed or fail, every step
\* of the Battle changes the in-memory state (status, turn counter, speaker,
\* transcript, timers, calls, memories, events) exactly as the same step of
\* a Battle whose sink never fails.
C18_SinkFailuresNotFatal == [][WorkingStep]_<<memvars, op>>

\* a Battle whose sink dropped every write has run to its complete event
C18_Witness ==
    /\ ~sinkUp
    /\ dbStatus = "none"
    /\ dbTurns = <<>>
    /\ Len(history) >= 2
    /\ NumComplete >= 1
    /\ \E i \in 1 .. Len(events) : events[i].type = "resumed"

\* every complete() invocation has sent its complete event and every agent
\* has its entry of each of them
CompletionsDone ==
    /\ completing = EmptyBag
    /\ NumComplete >= 1
    /\ \A a \in Agents : memories[a] = NumComplete /\ saveCalls[a] = NumComplete

\* C19: a failed write of an Agent's Brain never aborts completion: in the
\* step in which the write fails complete() goes on, the remaining Agents
\* get their memory entry and their save, up to the next write, and when no
\* Agent is left the final status is persisted and the complete event is
\* sent; and after a failed write every completion under way ends with its
\* complete event.
C19_SaveFailureContinues ==
    /\ [][op' = "save_failed" =>
             \E a \in BagToSet(completing) :
                 LET j == NextSuspend(a + 1) IN
                 /\ \A b \in Agents :
                        /\ memories'[b] = memories[b] + (IF b > a /\ b <= j THEN 1 ELSE 0)
                        /\ saveCalls'[b] = saveCalls[b] + (IF b > a /\ b <= j THEN 1 ELSE 0)
                 /\ IF j < nAgents
                    THEN /\ completing' = BagAdd(BagRemove(completing, a), j)
                         /\ events' = events
                    ELSE /\ completing' = BagRemove(completing, a)
                         /\ events' = Append(events, CompleteEvent(turn))
                         /\ sinkUp => dbStatus' = "complete"]_vars
    /\ (op = "save_failed") ~> CompletionsDone

\* the first Agent's write failed; the second Agent has its entry and its
\* write is under way
C19_Witness ==
    /\ op = "save_failed"
    /\ completing = SetToBag({1})
    /\ memories[1] = 1
    /\ NumComplete = 0

\* C20: with a working Persistence Sink there is exactly one turns row per
\* accepted Turn, carrying that Turn's turn number, and the rows are written
\* in increasing turn order; a turn whose Provider call failed has no row.
C20_OneRowPerTurn ==
    sinkUp =>
        /\ Len(dbTurns) = Len(history)
        /\ \A k \in 1 .. Len(dbTurns) : dbTurns[k] = history[k].turn
        /\ \A k \in 2 .. Len(dbTurns) : dbTurns[k - 1] < dbTurns[k]

\* rows of a Battle that also had a failed Provider call and a resume()
C20_Witness ==
    /\ sinkUp
    /\ Len(dbTurns) >= 2
    /\ failures > 0
    /\ Len(dbTurns) < responses + failures

\* ---------------------------------------------------------------- spectators
\* the events a step adds to the log
NewEvents == SubSeq(events', Len(events) + 1, Len(events'))

\* C21: a broadcast sends the event exactly once to every connection that
\* is in the spectator set with an open transport, sends nothing to a
\* connection that was removed or is not open, and leaves the spectator set
\* as it was.
C21_BroadcastToOpenSpectators ==
    [][Len(events') > Len(events) =>
          /\ spectators' = spectators
          /\ \A ws \in Sockets :
                 received'[ws] =
                     IF ws \in spectators /\ wsState[ws] = "open"
                     THEN received[ws] \o NewEvents
                     ELSE received[ws]]_vars

\* the latest event reached the open second connection and not the first,
\* which is still in the set but no longer open
C21_Witness ==
    /\ {1, 2} \subseteq spectators
    /\ wsState[1] = "closed"
    /\ wsState[2] = "open"
    /\ Len(received[2]) >= 2
    /\ received[2][Len(received[2])] = events[Len(events)]
    /\ received[1][Len(received[1])] # events[Len(events)]

\* the Turns of the first Battle in the snapshot a connection was sent on
\* joining; none if the Battle was not registered then
SnapshotTurns(ws) ==
    LET snap == received[ws][1].battles
    IN  IF returned[1] \in DOMAIN snap /\ battles[returned[1]] = 1
        THEN [i \in 1 .. Len(snap[returned[1]].history) |->
                 TurnEvent(snap[returned[1]].history[i])]
        ELSE <<>>

\* the turn events a connection was sent after the snapshot
DeliveredTurns(ws) == SelectSeq(Tail(received[ws]), LAMBDA m : m.type = "turn")

\* C22: a spectator that joined at any moment and is still in the set with
\* an open transport has missed no Turn and seen none twice: the Turns
\* appended before it joined are in its snapshot and the later ones came as
\* turn events, so snapshot and turn events together are the transcript.
C22_NoTurnMissedOrTwice ==
    \A ws \in spectators :
        wsState[ws] = "open" =>
            SnapshotTurns(ws) \o DeliveredTurns(ws) =
                [i \in 1 .. Len(history) |-> TurnEvent(history[i])]

\* a spectator that joined in the middle of the Battle: one Turn in its
\* snapshot, the rest delivered as events until the Battle completed
C22_Witness ==
    /\ status = "complete"
    /\ 1 \in spectators
    /\ wsState[1] = "open"
    /\ Len(SnapshotTurns(1)) = 1
    /\ Len(DeliveredTurns(1)) >= 1

\* ------------------------------------------------------------ the live map
\* Arena.getBattle(id), arena.js:553-555: the creation number of the Battle
\* found under the id, 0 for undefined
GetBattle(id) == IF id \in DOMAIN battles THEN battles[id] ELSE 0

\* C23: every Battle that createBattle() has returned is still the one
\* getBattle() finds under its id, whatever Battles were created after it
\* and whatever status it has reached.
C23_BattlesStayRetrievable ==
    \A k \in 1 .. Len(returned) : GetBattle(returned[k]) = k

\* createBattle() returns the Battle modelled in full
FirstCreated == Len(returned) = 0 /\ Len(returned') = 1

\* no turn has been asked for and no battle_start event was sent
NothingStarted ==
    /\ inflight = EmptyBag
    /\ timers = EmptyBag
    /\ responses = 0
    /\ failures = 0
    /\ \A i \in 1 .. Len(events) : events[i].type # "battle_start"

\* C24: the Battle createBattle() returns is registered under its id with
\* status pending, an empty transcript and turn counter 0, the call (and
\* initialize() in it) leaves the status as the constructor set it, and
\* until start() is called there is no Provider call and no battle_start
\* event.
C24_CreatedPendingUntilStart ==
    [][/\ FirstCreated =>
             /\ returned'[1] \in DOMAIN battles'
             /\ battles'[returned'[1]] = 1
             /\ status' = "pending"
             /\ status' = status
             /\ history' = <<>>
             /\ turn' = 0
       /\ ~started' => NothingStarted']_vars

\* the Battle was created, then paused and resumed before start(): it is
\* running by status and still nothing has been asked of a Provider
C24_Witness ==
    /\ Created
    /\ GetBattle(returned[1]) = 1
    /\ ~started
    /\ op = "resume"
    /\ status = "running"
    /\ NothingStarted

\* ------------------------------------------------------------- the opening
\* start() has computed the opening of the Battle in fnArgs
StartCalled == fnOut.fn = "start"

\* C25 as stated: the opening is based on the shared prompt if one is set,
\* otherwise on agent 0's individual directive, otherwise on "Begin.".
C25_OpeningSharedFirst ==
    StartCalled =>
        IsPrefix(IF fnArgs.prompt # Absent THEN fnArgs.prompt
                 ELSE IF fnArgs.directive # Absent THEN fnArgs.directive
                 ELSE <<"Begin.">>,
                 fnOut.opening)

\* C25, amended: the opening is based on agent 0's individual directive if
\* it has one, otherwise on the shared prompt if one is set, otherwise on
\* "Begin.", for every combination of the two being present or absent.
C25_OpeningDirectiveFirst ==
    StartCalled =>
        IsPrefix(IF fnArgs.directive # Absent THEN fnArgs.directive
                 ELSE IF fnArgs.prompt # Absent THEN fnArgs.prompt
                 ELSE <<"Begin.">>,
                 fnOut.opening)

\* both are set and the opening begins with the directive
C25_Witness ==
    /\ StartCalled
    /\ fnArgs.prompt # Absent
    /\ fnArgs.directive # Absent
    /\ Head(fnOut.opening) = Head(fnArgs.directive)

\* the text t occurs in the text s
Occurs(t, s) == \E i \in 0 .. (Len(s) - Len(t)) : SubSeq(s, i + 1, i + Len(t)) = t

\* the base prompt of the opening, whichever of the three it is
OpeningBase ==
    IF fnArgs.directive # Absent THEN fnArgs.directive
    ELSE IF fnArgs.prompt # Absent THEN fnArgs.prompt
    ELSE <<"Begin.">>

\* C26: the opening names the other participants (every agent but agent 0)
\* exactly when battle-level anonymity is not set, and with anonymity set
\* the opening is the base prompt and nothing else.
C26_DisclosureUnlessAnonymous ==
    StartCalled =>
        /\ fnArgs.anonymousMode => fnOut.opening = OpeningBase
        /\ \A i \in 1 .. (fnArgs.nAgents - 1) :
               Occurs(AgentName(i), fnOut.opening) <=> ~fnArgs.anonymousMode
        /\ ~Occurs(AgentName(0), fnOut.opening)

\* an opening that goes on after the base prompt and names agent 1
C26_Witness ==
    /\ StartCalled
    /\ ~fnArgs.anonymousMode
    /\ fnOut.opening # OpeningBase
    /\ Occurs(AgentName(1), fnOut.opening)

\* ------------------------------------------------------------ the messages
\* buildMessages has been called on the Battle in fnArgs
MessagesBuilt == fnOut.fn = "buildMessages"

\* the first n messages render the n Turns of the transcript from the
\* speaker's point of view
RendersTranscript ==
    /\ Len(fnOut.messages) >= Len(fnArgs.history)
    /\ \A i \in 1 .. Len(fnArgs.history) :
           /\ fnOut.messages[i].content = fnArgs.history[i].content
           /\ fnOut.messages[i].role = "assistant"
                  <=> fnArgs.history[i].speakerIndex = fnOut.speakerIndex
           /\ fnOut.messages[i].role \in {"assistant", "user"}

\* one more message follows the rendered Turns: a user entry that ends with
\* the input
HasFinalEntry ==
    /\ Len(fnOut.messages) = Len(fnArgs.history) + 1
    /\ fnOut.messages[Len(fnOut.messages)].role = "user"
    /\ \E pre \in 0 .. Len(fnOut.messages[Len(fnOut.messages)].content) :
           SubSeq(fnOut.messages[Len(fnOut.messages)].content, pre + 1,
                  Len(fnOut.messages[Len(fnOut.messages)].content)) = fnOut.lastMessage

\* the outgoing message: the final entry, if there is one
Outgoing ==
    IF Len(fnOut.messages) = Len(fnArgs.history) + 1
    THEN fnOut.messages[Len(fnOut.messages)].content
    ELSE Absent

DuePrefix ==
    (IF fnArgs.prompt # Absent
     THEN <<"[Context: ">> \o fnArgs.prompt \o <<"]\n\n">>
     ELSE <<>>)
    \o (IF fnArgs.directives[fnOut.speakerIndex] = Absent THEN <<>>
        ELSE IF fnArgs.anonymousMode
        THEN fnArgs.directives[fnOut.speakerIndex] \o <<"\n\n">>
        ELSE <<"[Your directive: ">> \o fnArgs.directives[fnOut.speakerIndex]
                 \o <<"]\n\n">>)

\* C28: the outgoing message built for an agent carries the first-turn
\* prefix exactly when no Turn of the transcript has the agent's speaker
\* index, so that in a run without failures every agent gets the prefix on
\* its first turn and on no later one.
C28_PrefixOnFirstTurnOnly ==
    MessagesBuilt /\ DuePrefix # <<>> =>
        (Outgoing # Absent /\ IsPrefix(DuePrefix, Outgoing)
            <=> \A i \in 1 .. Len(fnArgs.history) :
                    fnArgs.history[i].speakerIndex # fnOut.speakerIndex)

\* C29: with a max-words value configured the outgoing message of every
\* turn contains the word-limit instruction, before the input content; with
\* the value absent or falsy no message contains it.
C29_WordLimitEveryTurn ==
    MessagesBuilt =>
        IF fnArgs.maxWords # 0
        THEN \E pre \in 0 .. Len(Outgoing) :
                 SubSeq(Outgoing, pre + 1, Len(Outgoing)) =
                     <<"[", ToString(fnArgs.maxWords), " words max.] ">> \o fnOut.lastMessage
        ELSE \A i \in 1 .. Len(fnOut.messages) :
                 ~Occurs(<<" words max.] ">>, fnOut.messages[i].content)

\* -------------------------------------------------------- the system prompt
\* buildSystemPrompt has been called on the Agent in fnArgs
PromptBuilt == fnOut.fn = "buildSystemPrompt"

\* where the token first stands in the text; 0 if it does not
Pos(token, text) ==
    IF \E i \in 1 .. Len(text) : text[i] = token
    THEN CHOOSE i \in 1 .. Len(text) :
             text[i] = token /\ \A j \in 1 .. (i - 1) : text[j] # token
    ELSE 0

\* the sections of a system prompt in the order they are to stand in, each
\* with the token it begins with and whether the Agent has it
Sections(a) ==
    <<[token |-> "You are ", has |-> ~a.anonymous],
      [token |-> "soul", has |-> a.soul # Absent],
      [token |-> "brain soul",
       has |-> a.brain.loaded /\ a.brain.soul # Absent /\ a.soul = Absent],
      [token |-> "## Your Knowledge\n",
       has |-> a.brain.loaded /\ Len(a.brain.concepts) > 0],
      [token |-> "## Recent Memories\n",
       has |-> a.brain.loaded /\ a.brain.memories > 0],
      [token |-> "\nYou have had ", has |-> a.brain.loaded /\ a.brain.stats >= 0]>>

\* the text returned, empty for null
Returned == IF fnOut.prompt.null THEN <<>> ELSE fnOut.prompt.text

\* C30: buildSystemPrompt puts together, in this order and leaving out what
\* is absent, the identification line (unless the Agent is anonymous), the
\* persona, the Brain's fallback persona (only without a persona of the
\* Agent's own), the knowledge section, the memory section and the counter
\* line; with every section absent it returns null and never the empty
\* string; for an Agent with a persona and no Brain it returns the
\* identification line and the persona and nothing else.
C30_SystemPromptSections ==
    PromptBuilt =>
        LET sec == Sections(fnArgs)
        IN  /\ \A k \in 1 .. Len(sec) : sec[k].has <=> Pos(sec[k].token, Returned) > 0
            /\ \A k, l \in 1 .. Len(sec) :
                   k < l /\ sec[k].has /\ sec[l].has =>
                       Pos(sec[k].token, Returned) < Pos(sec[l].token, Returned)
            /\ fnOut.prompt.null <=> \A k \in 1 .. Len(sec) : ~sec[k].has
            /\ ~fnOut.prompt.null => fnOut.prompt.text # <<>>
            /\ fnArgs.soul # Absent /\ ~fnArgs.brain.loaded /\ ~fnArgs.anonymous =>
                   fnOut.prompt =
                       Str(<<"You are ">> \o fnArgs.name \o <<".\n\n">>
                               \o fnArgs.soul \o <<"\n\n">>)

\* a prompt with five sections: the Agent's persona stands and the Brain's
\* is left out
C30_Witness ==
    /\ PromptBuilt
    /\ Cardinality({k \in 1 .. Len(Sections(fnArgs)) : Sections(fnArgs)[k].has}) = 5
    /\ fnArgs.brain.loaded
    /\ fnArgs.brain.soul # Absent
    /\ Pos("brain soul", Returned) = 0
    /\ Pos("soul", Returned) > 0

\* where the text t first stands in the text s; 0 if it does not
PosOf(t, s) ==
    IF Occurs(t, s)
    THEN CHOOSE i \in 1 .. (Len(s) - Len(t) + 1) :
             /\ SubSeq(s, i, i + Len(t) - 1) = t
             /\ \A j \in 1 .. (i - 1) : SubSeq(s, j, j + Len(t) - 1) # t
    ELSE 0

\* where knowledge entry k and memory k stand in the prompt returned
ConceptAt(k) == PosOf(<<"- ", "concept ", ToString(k), ": ">>, Returned)
MemoryAt(k) == PosOf(<<"- ", "key ", ToString(k), ": ">>, Returned)

C32_TurnWithinMax == turn <= maxTurns /\ Len(history) <= maxTurns

\* C33: completion happens at most once: at most one complete event is
\* emitted for the Battle and each of its Agents gets at most one
\* battle-summary memory entry for it.
C33_CompletesOnce ==
    /\ NumComplete <= 1
    /\ \A a \in Agents : memories[a] <= 1

\* the positions of the turn events in the log
TurnEventAt == {i \in 1 .. Len(events) : events[i].type = "turn"}

\* C34: once the complete event has been emitted the transcript and the
\* turn counter stay as they are: no Turn is appended, persisted or
\* broadcast any more.
C34_NothingAfterComplete ==
    [][NumComplete >= 1 =>
          /\ history' = history
          /\ turn' = turn
          /\ dbTurns' = dbTurns
          /\ \A i \in (Len(events) + 1) .. Len(events') : events'[i].type # "turn"]_vars

\* C35: every Turn of the transcript names the Agent its speakerIndex
\* points to, which is the Agent whose Provider produced its content.
C35_TurnNamesItsSpeaker ==
    \A i \in 1 .. Len(history) : history[i].speaker = history[i].speakerIndex

\* C36: battle_start comes before every turn event; the turn events are
\* those of the accepted Turns, one each and in increasing turn-index
\* order; the complete event comes after every turn event and its turns
\* value is the number of turn events emitted.
C36_EventsOrdered ==
    /\ \A i \in TurnEventAt : \E j \in 1 .. (i - 1) : events[j].type = "battle_start"
    /\ SelectSeq(events, LAMBDA e : e.type = "turn") =
           [k \in 1 .. Len(history) |-> TurnEvent(history[k])]
    /\ \A i, j \in TurnEventAt : i < j => events[i].turn < events[j].turn
    /\ \A i \in 1 .. Len(events) :
           events[i].type = "complete" =>
               /\ \A j \in TurnEventAt : j < i
               /\ events[i].turns = Cardinality(TurnEventAt)

\* no runTurn is waiting for its Provider call and no complete() for a
\* Brain save
NothingSuspended == inflight = EmptyBag /\ completing = EmptyBag

\* C37: with a working Persistence Sink, whenever no operation of the
\* Battle is suspended in mid-execution, the status in its battles row is
\* its in-memory status, also when pause() was called while complete() was
\* waiting for a Brain save.
C37_RowMatchesStatus == sinkUp /\ NothingSuspended => dbStatus = status

\* ------------------------------------------------------------- termination
\* resume() takes a started Battle from paused to running below maxTurns
ResumesBelowMax ==
    /\ op' = "resume"
    /\ started
    /\ status = "paused"
    /\ status' = "running"
    /\ turn < maxTurns

\* C38: resume() never leaves the Battle stalled: when it sets the status
\* to running with the turn counter below maxTurns, a turn is on its way (a
\* timer that will run it, or its Provider call), also when the transcript
\* is still empty.
C38_ResumeNeverStalls ==
    [][ResumesBelowMax => timers' # EmptyBag \/ inflight' # EmptyBag]_vars

\* C39: CLIBattle.run() returns in the end once it has started the Battle:
\* its wait loop, which goes on while the status is running, comes to an
\* end in every execution, also when a Provider call fails.  As long as
\* the loop is waiting on a running Battle there has to be something left
\* that can end the run: a timer, a Provider call or a save.
C39_WaitLoopEnds ==
    cli = "called" /\ started /\ status = "running" =>
        \/ timers # EmptyBag
        \/ inflight # EmptyBag
        \/ completing # EmptyBag

====
